---- MODULE Spec2Model ----
(***************************************************************************)
(* Model of dplyr's DataMask (inst/include/dplyr/DataMask.h): the general  *)
(* binding layer DataMask_bindings<Data> with its weak-forwarding proxy    *)
(* and strong resolver (GroupedHybridEval), the NaturalDataFrame           *)
(* specialisation, and DataMask::eval.  LazySplitSubsets (the SubsetCache) *)
(* is not part of DataMask.h; it is modelled from its documented contract. *)
(***************************************************************************)
EXTENDS Integers, Sequences, FiniteSets, TLC

\* ---------------------------------------------------------------- bounds
NRows == 3          \* rows of the dataset
NGroups == 2        \* groups of the grouped dataset
MaxDepth == 2       \* nesting depth of evaluate calls
MaxMat == 2         \* cap on the materialization counter
MaxMasks == 2       \* masks built one after the other over one SubsetCache

\* ------------------------------------------------------------- dataset
NamesVec == <<"x", "y">>
Names == {NamesVec[i] : i \in 1..Len(NamesVec)}
Undeclared == {"z", "w"}
AllNames == Names \cup Undeclared

Rows == 1..NRows
RowSeq == [r \in 1..NRows |-> r]
ColumnValue(n, r) == IF n = "x" THEN 10 * r ELSE 20 * r + 1

\* ------------------------------------------------------------- values
Vec(s) == [tag |-> "vec", v |-> s]
Null == [tag |-> "NULL", v |-> <<>>]
Unbound == [tag |-> "unbound", v |-> <<>>]
Err(k) == [tag |-> k, v |-> <<>>]
IsError(val) == val.tag \in {"UndeclaredVariable", "object_not_found"}

\* the enclosing scope of the mask (parent_env): it binds z and not w
ParentEnv == [n \in AllNames |-> IF n = "z" THEN Vec(<<7>>) ELSE Unbound]

NullIndex == -1

VARIABLES
  ngroups,           \* number of groups of the dataset the masks are built on
  callback,          \* the shared_ptr<GroupedHybridEval>: "live" or "destroyed"
  indices,           \* GroupedHybridEval::indices, the borrowed index pointer
  subsets,           \* the SubsetCache entries, per declared name
  materializations,  \* the SubsetCache's materialization counter
  mask_active,       \* names with an active binding in mask_active
  mask_resolved,     \* plain bindings of mask_resolved
  overscope,         \* ..group_size and ..group_number of the overscope
  mask_bindings,     \* bindings of the NaturalDataFrame mask
  nat_overscope,     \* metadata of the NaturalDataFrame mask's overscope
  stack,             \* evaluate calls in progress on the general mask
  liveIdx,           \* index objects the caller currently keeps alive
  caller,            \* what the last evaluate handed to its caller
  last,              \* the last operation and what it observed
  crashed,           \* the process ended in a memory fault
  use_count,         \* owning references (shared_ptr) to the GroupedHybridEval
  overscope_user,    \* variables an evaluated expression defined in the overscope
  mask_no            \* how many masks were built over the caller's SubsetCache

vars == <<ngroups, callback, indices, subsets, materializations, mask_active,
          mask_resolved, overscope, mask_bindings, nat_overscope, stack,
          liveIdx, caller, last, crashed, use_count, overscope_user, mask_no>>

\* ------------------------------------------------------- slicing index
Groups == 0..(ngroups - 1)
IndexRows(g) == SelectSeq(RowSeq, LAMBDA r : (r - 1) % ngroups = g)
IndexSize(g) == Len(IndexRows(g))
IndexGroup(g) == g

\* ------------------------------------------- SubsetCache (LazySplitSubsets)
Subset(n, g) == [i \in 1..IndexSize(g) |-> ColumnValue(n, IndexRows(g)[i])]
WholeColumn(i) == [r \in 1..NRows |-> ColumnValue(NamesVec[i], r)]
NoEntry == [has |-> FALSE, idx |-> NullIndex, val |-> <<>>]
Entry(g, s) == [has |-> TRUE, idx |-> g, val |-> s]
NoBindings == [n \in AllNames |-> Unbound]

subsets_clear == [n \in Names |-> NoEntry]

subsets_update(indices_, env) ==
  [subsets |-> subsets_clear,
   env |-> [n \in AllNames |-> IF n \in Names THEN Unbound ELSE env[n]]]

\* get(name, index, scope); read is the index content the reference yields
subsets_get(n, ptr, read, env) ==
  IF n \notin Names
    THEN [val |-> Err("UndeclaredVariable"), subsets |-> subsets, env |-> env, mat |-> 0]
    ELSE IF subsets[n].has
      THEN [val |-> Vec(subsets[n].val), subsets |-> subsets, env |-> env, mat |-> 0]
      ELSE [val |-> Vec(Subset(n, read)),
            subsets |-> [subsets EXCEPT ![n] = Entry(ptr, Subset(n, read))],
            env |-> [env EXCEPT ![n] = Vec(Subset(n, read))],
            mat |-> 1]

\* ------------------------------------------------- events and outcomes
NoEng == [kind |-> "none", v |-> ""]
EngineOutcomes ==
  {[kind |-> "value", v |-> "v1"], [kind |-> "error", v |-> "e1"]}

Ev(op, n, o, eng) ==
  [op |-> op, name |-> n, val |-> o.val, warn |-> o.warn, proxy |-> o.proxy,
   strong |-> o.strong, mat |-> o.mat, eng |-> eng, held |-> o.held]

\* an outcome of a lookup that changes nothing
Plain(val) ==
  [val |-> val, subsets |-> subsets, env |-> mask_resolved, mat |-> 0,
   crash |-> FALSE, warn |-> FALSE, proxy |-> FALSE, strong |-> FALSE,
   held |-> use_count, after |-> use_count]

NoOutcome == Plain(Null)

\* --------------------------------------------------- GroupedHybridEval
\* whether the borrowed pointer refers to an index object that still exists
IndexValid == indices # NullIndex /\ indices \in liveIdx

\* *indices: the index the reference yields; reading through a null or
\* dangling pointer yields the content of any index (or faults, see below)
get_indices == IF IndexValid THEN {indices} ELSE Groups

\* mutant: the index is captured at the first update instead of swapped
set_indices_once(indices_) == IF indices = NullIndex THEN indices_ ELSE indices

set_indices(indices_) == indices_

\* GroupedHybridEval::get_subset: subsets.get(name, get_indices(), mask_env)
GroupedHybridEval_get_subset(n) ==
  LET reads == n \in Names /\ ~subsets[n].has
      done(g) == LET r == subsets_get(n, indices, g, mask_resolved)
                 IN  [val |-> r.val, subsets |-> r.subsets, env |-> r.env,
                      mat |-> r.mat, crash |-> FALSE, warn |-> FALSE,
                      proxy |-> TRUE, strong |-> TRUE,
                      held |-> use_count, after |-> use_count]
      fault == [val |-> Null, subsets |-> subsets, env |-> mask_resolved,
                mat |-> 0, crash |-> TRUE, warn |-> FALSE, proxy |-> TRUE,
                strong |-> TRUE, held |-> use_count, after |-> use_count]
  IN  IF reads
        THEN {done(g) : g \in get_indices} \cup (IF IndexValid THEN {} ELSE {fault})
        ELSE {done(indices)}

\* ---------------------------------------------- HybridCallbackWeakProxy
\* mutant: the proxy forwards without checking that the lock succeeded
real_lock_always == TRUE

\* real.lock(): succeeds while the binding layer still owns the callback
real_lock == callback = "live"

\* the temporary shared_ptr lock owns the callback while the call is
\* forwarded and is released when get_subset returns
lock_held(count) == count + 1
lock_released(count) == count - 1

\* the answer of a proxy whose weak_ptr cannot be locked
StaleAnswer ==
  [val |-> Null, subsets |-> subsets, env |-> mask_resolved, mat |-> 0,
   crash |-> FALSE, warn |-> TRUE, proxy |-> TRUE, strong |-> FALSE,
   held |-> use_count, after |-> use_count]

WeakProxy_get_subset(n) ==
  IF real_lock
    THEN {[o EXCEPT !.held = lock_held(use_count),
                    !.after = lock_released(lock_held(use_count))] :
            o \in GroupedHybridEval_get_subset(n)}
    ELSE {StaleAnswer}

\* mutant: a proxy locks whichever mask's callback is alive
weak_lock_any(k) == callback = "live"

\* real.lock() of the proxy made by mask number k: its weak_ptr refers to the
\* callback that mask allocated, and to no later one
weak_lock(k) == k = mask_no /\ callback = "live"

\* get_subset of the proxy made by mask number k
WeakProxy_get_subset_of(k, n) ==
  IF weak_lock(k)
    THEN {[o EXCEPT !.held = lock_held(use_count),
                    !.after = lock_released(lock_held(use_count))] :
            o \in GroupedHybridEval_get_subset(n)}
    ELSE {StaleAnswer}

\* mutant: the proxy keeps the shared_ptr it is given instead of a weak_ptr
proxy_ctor_strong(count) == count + 1

\* HybridCallbackWeakProxy(real_): real is a weak_ptr, the by-value
\* shared_ptr parameter is released when the constructor returns
HybridCallbackWeakProxy_ctor(count) == count

hybrid_get_callback(n) == WeakProxy_get_subset(n)

\* ------------------------------------------------ DataMask_bindings<Data>
\* mutant: the constructor does not clear the caller's SubsetCache, which
\* still holds the entries of an earlier mask
ctor_no_clear ==
  [mask_active |-> Names, mask_resolved |-> NoBindings,
   subsets |-> [n \in Names |-> Entry(0, Subset(n, 0))], callback |-> "live",
   indices |-> NullIndex, use_count |-> HybridCallbackWeakProxy_ctor(1)]

\* mutant: active bindings are created for names that are not declared
ctor_all_names ==
  [mask_active |-> AllNames, mask_resolved |-> NoBindings,
   subsets |-> subsets_clear, callback |-> "live", indices |-> NullIndex,
   use_count |-> HybridCallbackWeakProxy_ctor(1)]

DataMask_bindings_ctor ==
  [mask_active |-> Names, mask_resolved |-> NoBindings,
   subsets |-> subsets_clear, callback |-> "live", indices |-> NullIndex,
   use_count |-> HybridCallbackWeakProxy_ctor(1)]

\* mutant: update installs the index without calling subsets.update
update_no_clear(indices_) ==
  [subsets |-> subsets, mask_resolved |-> mask_resolved,
   indices |-> set_indices(indices_)]

\* mutant: update calls subsets.clear() instead of subsets.update(.., env)
update_clear_only(indices_) ==
  [subsets |-> subsets_clear, mask_resolved |-> mask_resolved,
   indices |-> set_indices(indices_)]

DataMask_bindings_update(indices_) ==
  LET u == subsets_update(indices_, mask_resolved)
  IN  [subsets |-> u.subsets, mask_resolved |-> u.env,
       indices |-> set_indices(indices_)]

DataMask_bindings_dtor ==
  [subsets |-> subsets_clear, callback |-> "destroyed",
   use_count |-> use_count - 1]

\* ------------------------------------- DataMask_bindings<NaturalDataFrame>
\* mutant: every name is bound to the data of the first column
Natural_binding_first(i) == Vec(WholeColumn(1))

Natural_binding(i) == Vec(WholeColumn(i))

Natural_ctor ==
  [n \in AllNames |->
     IF n \in Names
       THEN Natural_binding(CHOOSE i \in 1..Len(NamesVec) : NamesVec[i] = n)
       ELSE Unbound]

\* mutant: update drops the bindings made at construction
Natural_update_reset(indices_) == NoBindings

\* update(const Index&) {}
Natural_update(indices_) == mask_bindings

\* bottom() and top() both return mask_bindings
Natural_bottom == mask_bindings
Natural_top == mask_bindings

\* --------------------------------------------------------------- DataMask
MetaNames == {"..group_size", "..group_number"}
NoMeta == [m \in MetaNames |-> Unbound]

UserNames == {"tmp"}
NoUser == [u \in UserNames |-> Unbound]

\* mutant: eval evaluates in a fresh overscope
eval_user_reset(user) == NoUser

\* eval writes ..group_size and ..group_number only: the other bindings of
\* the overscope are left as they are
eval_user_bindings(user) == user

group_size_of(size) == size
\* mutant: the group ordinal is written zero-based
group_number_zero_based(group) == group

group_number_of(group) == group + 1

\* mutant: the metadata is taken from the index installed before the update
eval_overscope_stale(size, group) ==
  [m \in MetaNames |->
     IF m = "..group_size" THEN Vec(<<IndexSize(indices)>>)
                           ELSE Vec(<<indices + 1>>)]

eval_overscope(size, group) ==
  [m \in MetaNames |->
     IF m = "..group_size" THEN Vec(<<group_size_of(size)>>)
                           ELSE Vec(<<group_number_of(group)>>)]

\* mutant: eval catches the engine's error and raises one of its own
eval_result_wrapped(r) ==
  IF r.kind = "error" THEN [kind |-> "error", v |-> "wrapped"] ELSE r

\* eval returns what Rcpp_eval returns (a value, or the error it raised)
eval_result(r) == r

\* ---------------------------------------------------- environment lookup
ParentLookup(n) ==
  IF ParentEnv[n].tag # "unbound" THEN ParentEnv[n] ELSE Err("object_not_found")

\* mutant: the data mask is built with top() as its bottom, so that the
\* resolved scope is not consulted
LookupOutcomes_top_first(n) ==
  IF n \in mask_active THEN hybrid_get_callback(n)
  ELSE {Plain(ParentLookup(n))}

\* lookup of n from the overscope: bottom (mask_resolved), then top
\* (mask_active, whose bindings call hybrid_get_callback), then parent_env
LookupOutcomes(n) ==
  IF mask_resolved[n].tag # "unbound" THEN {Plain(mask_resolved[n])}
  ELSE IF n \in mask_active THEN hybrid_get_callback(n)
  ELSE {Plain(ParentLookup(n))}

NaturalLookupValue(n) ==
  IF mask_bindings[n].tag # "unbound" THEN mask_bindings[n] ELSE ParentLookup(n)

\* ------------------------------------------------------------------ Init
Init ==
  /\ ngroups \in {1, NGroups}
  /\ callback = DataMask_bindings_ctor.callback
  /\ indices = DataMask_bindings_ctor.indices
  /\ subsets = DataMask_bindings_ctor.subsets
  /\ mask_active = DataMask_bindings_ctor.mask_active
  /\ mask_resolved = DataMask_bindings_ctor.mask_resolved
  /\ materializations = 0
  /\ overscope = NoMeta
  /\ mask_bindings = Natural_ctor
  /\ nat_overscope = NoMeta
  /\ stack = <<>>
  /\ liveIdx = {}
  /\ caller = NoEng
  /\ use_count = DataMask_bindings_ctor.use_count
  /\ last = Ev("construct", "", NoOutcome, NoEng)
  /\ crashed = FALSE
  /\ overscope_user = NoUser
  /\ mask_no = 1

\* --------------------------------------------------------------- actions
\* an evaluate with index h starts: every call in progress whose index is
\* another one is now overlapped by a different group
MarkOverlap(st, h) ==
  [i \in 1..Len(st) |-> [st[i] EXCEPT !.overlapped = @ \/ st[i].idx # h]]

\* DataMask::eval up to the call of Rcpp_eval: update, metadata, engine entry
Eval(g) ==
  /\ ~crashed /\ callback = "live" /\ Len(stack) < MaxDepth
  /\ LET u == DataMask_bindings_update(g)
     IN  /\ subsets' = u.subsets
         /\ mask_resolved' = u.mask_resolved
         /\ indices' = u.indices
  /\ overscope' = eval_overscope(IndexSize(g), IndexGroup(g))
  /\ stack' = Append(MarkOverlap(stack, g),
                     [idx |-> g, overlapped |-> FALSE,
                      afterFail |-> caller.kind = "error"])
  /\ liveIdx' = liveIdx \cup {g}
  /\ last' = Ev("eval", "", NoOutcome, NoEng)
  /\ overscope_user' = eval_user_bindings(overscope_user)
  /\ UNCHANGED <<ngroups, callback, materializations, mask_active, mask_bindings,
                 nat_overscope, caller, crashed, use_count, mask_no>>

\* what a resolution outcome does to the state
Resolve(op, n, o) ==
  /\ o.mat = 1 => materializations < MaxMat
  /\ crashed' = o.crash
  /\ subsets' = o.subsets
  /\ mask_resolved' = o.env
  /\ materializations' = materializations + o.mat
  /\ last' = Ev(op, n, o, NoEng)
  /\ use_count' = o.after
  /\ UNCHANGED <<ngroups, callback, indices, mask_active, overscope, mask_bindings,
                 nat_overscope, stack, liveIdx, caller, overscope_user, mask_no>>

\* the engine, or a closure that kept the overscope, looks a name up
Lookup(n) ==
  /\ ~crashed
  /\ \E o \in LookupOutcomes(n) : Resolve("lookup", n, o)

\* the active binding of n is forced directly (.data pronoun, top())
ProxyCall(n) ==
  /\ ~crashed
  /\ \E o \in hybrid_get_callback(n) : Resolve("callback", n, o)

eval_return_reset == NullIndex

\* eval has no epilogue: the resolver keeps the index of the last update
eval_return_indices == indices

\* Rcpp_eval returns or raises; eval hands that to its caller
EvalReturn(r) ==
  /\ ~crashed /\ stack # <<>>
  /\ stack' = SubSeq(stack, 1, Len(stack) - 1)
  /\ caller' = eval_result(r)
  /\ last' = Ev("return", "", NoOutcome, r)
  /\ indices' = eval_return_indices
  /\ UNCHANGED <<ngroups, callback, subsets, materializations, mask_active,
                 mask_resolved, overscope, mask_bindings, nat_overscope, liveIdx,
                 crashed, use_count, overscope_user, mask_no>>

\* the caller lets go of an index no evaluate is using
ReleaseIndex(g) ==
  /\ ~crashed /\ g \in liveIdx
  /\ \A i \in 1..Len(stack) : stack[i].idx # g
  /\ liveIdx' = liveIdx \ {g}
  /\ last' = Ev("release", "", NoOutcome, NoEng)
  /\ UNCHANGED <<ngroups, callback, indices, subsets, materializations, mask_active,
                 mask_resolved, overscope, mask_bindings, nat_overscope, stack,
                 caller, crashed, use_count, overscope_user, mask_no>>

\* ~DataMask_bindings: the cache is cleared and the callback released
Destroy ==
  /\ ~crashed /\ callback = "live" /\ stack = <<>>
  /\ subsets' = DataMask_bindings_dtor.subsets
  /\ callback' = DataMask_bindings_dtor.callback
  /\ last' = Ev("destroy", "", NoOutcome, NoEng)
  /\ use_count' = DataMask_bindings_dtor.use_count
  /\ UNCHANGED <<ngroups, indices, materializations, mask_active, mask_resolved,
                 overscope, mask_bindings, nat_overscope, stack, liveIdx, caller,
                 crashed, overscope_user, mask_no>>

\* DataMask<NaturalDataFrame>::eval: update is empty, metadata of all rows
NaturalEval ==
  /\ ~crashed
  /\ mask_bindings' = Natural_update(0)
  /\ nat_overscope' = eval_overscope(NRows, 0)
  /\ last' = Ev("nat_eval", "", NoOutcome, NoEng)
  /\ UNCHANGED <<ngroups, callback, indices, subsets, materializations, mask_active,
                 mask_resolved, overscope, stack, liveIdx, caller, crashed,
                 use_count, overscope_user, mask_no>>

\* the expression being evaluated defines a variable in the overscope
Define(u, val) ==
  /\ ~crashed /\ callback = "live" /\ stack # <<>>
  /\ overscope_user' = [overscope_user EXCEPT ![u] = val]
  /\ last' = Ev("define", u, Plain(val), NoEng)
  /\ UNCHANGED <<ngroups, callback, indices, subsets, materializations, mask_active,
                 mask_resolved, overscope, mask_bindings, nat_overscope, stack,
                 liveIdx, caller, crashed, use_count, mask_no>>

Next ==
  \/ \E g \in Groups : Eval(g)
  \/ \E n \in AllNames : Lookup(n)
  \/ \E n \in AllNames : ProxyCall(n)
  \/ \E r \in EngineOutcomes : EvalReturn(r)
  \/ \E g \in Groups : ReleaseIndex(g)
  \/ Destroy
  \/ NaturalEval

Spec == Init /\ [][Next]_vars

\* the same program with expressions that define variables of their own
UserValues == {Vec(<<1>>), Vec(<<2>>)}

NextUser ==
  \/ \E g \in Groups : Eval(g)
  \/ \E n \in Names : Lookup(n)
  \/ \E r \in EngineOutcomes : EvalReturn(r)
  \/ \E g \in Groups : ReleaseIndex(g)
  \/ Destroy
  \/ \E u \in UserNames, val \in UserValues : Define(u, val)

SpecUser == Init /\ [][NextUser]_vars

\* a new mask is constructed over the same SubsetCache after the previous
\* one was destroyed
Construct ==
  /\ ~crashed /\ callback = "destroyed" /\ mask_no < MaxMasks
  /\ callback' = DataMask_bindings_ctor.callback
  /\ indices' = DataMask_bindings_ctor.indices
  /\ subsets' = DataMask_bindings_ctor.subsets
  /\ mask_active' = DataMask_bindings_ctor.mask_active
  /\ mask_resolved' = DataMask_bindings_ctor.mask_resolved
  /\ use_count' = DataMask_bindings_ctor.use_count
  /\ overscope' = NoMeta
  /\ overscope_user' = NoUser
  /\ mask_no' = mask_no + 1
  /\ last' = Ev("construct", "", NoOutcome, NoEng)
  /\ UNCHANGED <<ngroups, materializations, mask_bindings, nat_overscope, stack,
                 liveIdx, caller, crashed>>

\* a closure that outlived mask number k forces one of its active bindings
StaleProxyCall(k, n) ==
  /\ ~crashed /\ k < mask_no
  /\ \E o \in WeakProxy_get_subset_of(k, n) : Resolve("stale_callback", n, o)

NextTwo ==
  \/ \E g \in Groups : Eval(g)
  \/ \E n \in Names : Lookup(n)
  \/ \E r \in EngineOutcomes : EvalReturn(r)
  \/ Destroy
  \/ Construct
  \/ \E k \in 1..MaxMasks, n \in Names : StaleProxyCall(k, n)

SpecTwo == Init /\ [][NextTwo]_vars

\* ================================================================ claims
IsResolve(e) == e.op \in {"lookup", "callback"}
Top == stack[Len(stack)]
GroupRowSet(g) == {r \in Rows : (r - 1) % ngroups = g}
Elems(sq) == {sq[i] : i \in 1..Len(sq)}
\* val is exactly column n at the rows of group g, and no row of another group
IsSubsetOf(val, n, g) ==
  /\ val.tag = "vec"
  /\ Len(val.v) = Cardinality(GroupRowSet(g))
  /\ Elems(val.v) = {ColumnValue(n, r) : r \in GroupRowSet(g)}
  /\ \A i \in 1..Len(val.v) :
       val.v[i] \notin {ColumnValue(n, r) : r \in Rows \ GroupRowSet(g)}
  /\ \A i, j \in 1..Len(val.v) : i < j => val.v[i] < val.v[j]
CacheEmpty(c) == \A n \in Names : ~c[n].has

\* C1: once the mask is destroyed, an invocation of the weak-forwarding proxy
\* (for any name) returns the null value with the "out of scope" warning,
\* does not reach the strong resolver, materializes nothing, leaves the
\* SubsetCache empty, raises no error and does not fault.
C1_StaleProxyReturnsNull ==
  (callback = "destroyed" /\ IsResolve(last) /\ last.proxy) =>
    /\ last.val = Null
    /\ last.warn
    /\ ~last.strong
    /\ last.mat = 0
    /\ ~IsError(last.val)
    /\ CacheEmpty(subsets)
    /\ ~crashed

C1_Witness ==
  /\ callback = "destroyed" /\ last.op = "callback" /\ last.proxy
  /\ last.name = "x" /\ materializations > 0 /\ indices # NullIndex

\* C2: a resolution of a declared variable made while a group's index is
\* installed and valid returns that column at exactly the rows of the
\* installed group; inside an evaluate that no other group has overlapped,
\* the installed group is the one the evaluate was called with.
C2_GroupIsolation ==
  (IsResolve(last) /\ last.name \in Names /\ callback = "live" /\ ~crashed) =>
    /\ IndexValid => IsSubsetOf(last.val, last.name, indices)
    /\ (stack # <<>> /\ ~Top.overlapped) =>
         IsSubsetOf(last.val, last.name, Top.idx)

C2_Witness ==
  /\ ngroups = NGroups /\ indices = 1 /\ IndexValid /\ stack # <<>>
  /\ last.op = "lookup" /\ last.name = "x" /\ last.mat = 1
  /\ materializations = 2

\* C3: two resolutions of the same variable in a row (the index stays
\* installed) return equal values and the second does not materialize; an
\* update to a different index empties the cache and the resolved scope,
\* and a resolution that finds no entry materializes (counter plus one).
C3_CacheCoherence ==
  [][ /\ (/\ IsResolve(last) /\ IsResolve(last') /\ last'.name = last.name
          /\ last.name \in Names /\ callback = "live" /\ ~crashed')
         => (last'.val = last.val /\ materializations' = materializations)
      /\ (last'.op = "eval" /\ indices' # indices)
         => \A n \in Names : ~subsets'[n].has /\ mask_resolved'[n] = Unbound
      /\ (/\ IsResolve(last') /\ last'.strong /\ last'.name \in Names
          /\ ~subsets[last'.name].has /\ ~crashed')
         => (materializations' = materializations + 1 /\ last'.mat = 1)
    ]_vars

C3_Witness ==
  /\ last.op = "callback" /\ last.strong /\ last.mat = 0 /\ last.name = "x"
  /\ subsets["x"].has /\ subsets["x"].idx = 1 /\ indices = 1
  /\ materializations = 2

\* C4: while the mask is alive, every SubsetCache entry was materialized for
\* the installed index, and every value bound in the resolved scope is the
\* value of such an entry; with a valid index the entry holds that group's
\* rows.
C4_NoStaleEntry ==
  (callback = "live" /\ ~crashed) =>
    \A n \in Names :
      /\ subsets[n].has => subsets[n].idx = indices
      /\ mask_resolved[n] # Unbound =>
           (subsets[n].has /\ mask_resolved[n] = Vec(subsets[n].val))
      /\ (subsets[n].has /\ IndexValid) => IsSubsetOf(Vec(subsets[n].val), n, indices)

C4_Witness ==
  /\ callback = "live" /\ indices = 1 /\ materializations = 2
  /\ subsets["x"].has /\ mask_resolved["x"] # Unbound /\ ~subsets["y"].has

\* C5: during an evaluate (not overlapped by an evaluate of another group)
\* ..group_size is the number of rows of its index and ..group_number its
\* group ordinal plus one; the single-group mask's evaluate writes the row
\* count of the dataset and ordinal one.
C5_Metadata ==
  /\ (stack # <<>> /\ ~Top.overlapped) =>
       /\ overscope["..group_size"] = Vec(<<Cardinality(GroupRowSet(Top.idx))>>)
       /\ overscope["..group_number"] = Vec(<<Top.idx + 1>>)
  /\ last.op = "nat_eval" =>
       /\ nat_overscope["..group_size"] = Vec(<<Cardinality(Rows)>>)
       /\ nat_overscope["..group_number"] = Vec(<<1>>)

C5_Witness ==
  /\ ngroups = NGroups /\ Len(stack) = 1 /\ Top.idx = 1 /\ caller.kind = "value"
  /\ overscope["..group_number"] = Vec(<<2>>)

\* C6 (as stated): resolving a name that is not declared always fails (with
\* UndeclaredVariable, or at least with an error that ends the evaluation),
\* in the general binding layer and in the single-group fast path.
C6_UndeclaredAlwaysFails ==
  /\ (IsResolve(last) /\ last.name \notin Names) => IsError(last.val)
  /\ last.op = "nat_eval" =>
       \A n \in AllNames \ Names : IsError(NaturalLookupValue(n))

\* C6 (amended): a request for an undeclared name that reaches the strong
\* resolver (through the proxy of a live mask) fails with UndeclaredVariable
\* and materializes nothing; a proxy of a destroyed mask returns null with
\* the warning; a lookup of an undeclared name through the scopes never
\* reaches the proxy and yields what the parent scope yields (its binding,
\* or the engine's not-found error), and neither mask binds such a name.
C6_UndeclaredAmended ==
  /\ (IsResolve(last) /\ last.name \notin Names) =>
       /\ last.strong => (last.val = Err("UndeclaredVariable") /\ last.mat = 0)
       /\ (last.op = "callback" /\ callback = "live") => last.strong
       /\ (last.proxy /\ ~last.strong) =>
            (callback = "destroyed" /\ last.val = Null /\ last.warn)
       /\ last.op = "lookup" =>
            /\ ~last.proxy
            /\ last.val = IF ParentEnv[last.name] # Unbound
                            THEN ParentEnv[last.name]
                            ELSE Err("object_not_found")
       /\ ~crashed
  /\ \A n \in AllNames \ Names :
       /\ mask_bindings[n] = Unbound
       /\ mask_resolved[n] = Unbound
       /\ n \notin mask_active

C6_Witness ==
  /\ last.op = "callback" /\ last.name = "z" /\ last.strong
  /\ last.val = Err("UndeclaredVariable") /\ stack # <<>>

\* C7: over a dataset with one group covering all rows, the general mask and
\* the single-group mask expose the same names, every resolution of a
\* declared name made while the index is valid yields the value the
\* single-group mask binds to it, an undeclared name looks up the same in
\* both, and both evaluates write the same metadata.
C7_FastPathEquivalence ==
  ngroups = 1 =>
    /\ mask_active = {n \in AllNames : mask_bindings[n] # Unbound}
    /\ (/\ IsResolve(last) /\ last.name \in Names /\ callback = "live"
        /\ IndexValid /\ ~crashed) => last.val = NaturalLookupValue(last.name)
    /\ (last.op = "lookup" /\ last.name \notin Names) =>
         last.val = NaturalLookupValue(last.name)
    /\ (stack # <<>> /\ nat_overscope # NoMeta) => overscope = nat_overscope

C7_Witness ==
  /\ ngroups = 1 /\ Len(stack) = 1 /\ last.op = "lookup" /\ last.name = "y"
  /\ last.mat = 1 /\ nat_overscope # NoMeta /\ Len(last.val.v) = NRows

\* C8: what the engine returns or raises is what evaluate hands to its
\* caller, the failed call is over (one frame less, nothing retried, the mask
\* state untouched by the return), and in an evaluate that follows a failed
\* one the installed index is that evaluate's, the cache starts empty and
\* every entry and every resolution is that index's rows.
C8_EngineFailure ==
  [][ /\ last'.op = "return" =>
           /\ caller' = last'.eng
           /\ Len(stack') = Len(stack) - 1
           /\ UNCHANGED <<indices, subsets, mask_resolved, overscope,
                          materializations, callback>>
      /\ (stack' # <<>> /\ Top'.afterFail /\ ~Top'.overlapped /\ ~crashed') =>
           /\ indices' = Top'.idx /\ indices' \in liveIdx'
           /\ \A n \in Names : subsets'[n].has =>
                /\ subsets'[n].idx = Top'.idx
                /\ IsSubsetOf(Vec(subsets'[n].val), n, Top'.idx)
           /\ last'.op = "eval" =>
                (CacheEmpty(subsets') /\ \A n \in Names : mask_resolved'[n] = Unbound)
           /\ (IsResolve(last') /\ last'.name \in Names) =>
                IsSubsetOf(last'.val, last'.name, Top'.idx)
    ]_vars

C8_Witness ==
  /\ stack # <<>> /\ Top.afterFail /\ ~Top.overlapped /\ caller.kind = "error"
  /\ last.op = "lookup" /\ last.name = "x" /\ last.mat = 1
  /\ materializations = 2 /\ ngroups = NGroups

\* C9: when the engine is entered the update has completed (index installed,
\* cache empty) and the metadata is that of the call's index; every
\* resolution made during the call (not overlapped by another group) sees
\* that index installed and valid, and that metadata.
C9_EvalOrder ==
  [][ /\ last'.op = "eval" =>
           /\ Len(stack') = Len(stack) + 1
           /\ indices' = Top'.idx
           /\ CacheEmpty(subsets')
           /\ overscope'["..group_size"] = Vec(<<Cardinality(GroupRowSet(Top'.idx))>>)
           /\ overscope'["..group_number"] = Vec(<<Top'.idx + 1>>)
      /\ (/\ IsResolve(last') /\ stack' # <<>> /\ ~Top'.overlapped
          /\ callback' = "live") =>
           /\ indices' = Top'.idx /\ indices' \in liveIdx'
           /\ overscope'["..group_size"] = Vec(<<Cardinality(GroupRowSet(Top'.idx))>>)
           /\ overscope'["..group_number"] = Vec(<<Top'.idx + 1>>)
           /\ (last'.mat = 1) => subsets'[last'.name].idx = Top'.idx
    ]_vars

C9_Witness ==
  /\ Len(stack) = 2 /\ stack[1].idx = 1 /\ Top.idx = 0 /\ ngroups = NGroups
  /\ IsResolve(last) /\ last.strong /\ last.name = "y" /\ last.mat = 1

C11_SingleOwner ==
  /\ callback = "live" => use_count = 1
  /\ callback = "destroyed" => use_count = 0
  /\ (IsResolve(last) /\ last.proxy /\ last.strong) =>
       (last.held = 2 /\ callback = "live")
  /\ (IsResolve(last) /\ last.proxy /\ ~last.strong) =>
       (last.held = 0 /\ callback = "destroyed")
  /\ (IsResolve(last) /\ ~last.proxy) => last.held = use_count

C11_Witness ==
  /\ callback = "live" /\ use_count = 1 /\ stack # <<>>
  /\ last.op = "lookup" /\ last.proxy /\ last.strong /\ last.held = 2
  /\ last.name = "y"

\* C12: a resolution of a declared variable by the strong resolver leaves its
\* value bound in the resolved scope; a lookup from the evaluation chain
\* reaches the proxy only when that first access materializes, and is
\* otherwise answered by the resolved scope without materializing.
C12_ResolvedMemo ==
  /\ (/\ IsResolve(last) /\ last.strong /\ last.name \in Names
      /\ callback = "live" /\ ~crashed) => mask_resolved[last.name] = last.val
  /\ (/\ last.op = "lookup" /\ last.name \in Names /\ last.proxy
      /\ callback = "live" /\ ~crashed) => last.mat = 1
  /\ (last.op = "lookup" /\ last.name \in Names /\ ~last.proxy) =>
       (last.val = mask_resolved[last.name] /\ last.mat = 0)
  /\ (callback = "live" /\ ~crashed) =>
       \A n \in Names : subsets[n].has => mask_resolved[n] = Vec(subsets[n].val)

C12_Witness ==
  /\ last.op = "lookup" /\ ~last.proxy /\ last.name = "x" /\ last.val.tag = "vec"
  /\ stack # <<>> /\ indices = 1 /\ materializations = 1 /\ callback = "live"

\* C13: a variable the expression defined in the overscope keeps its value
\* through every later step that is not another definition: update and
\* evaluate (of any group), resolutions, returns, the end of the mask; an
\* evaluate rewrites the two metadata variables only.
C13_UserVariablesKept ==
  [][ /\ last'.op # "define" => overscope_user' = overscope_user
      /\ last'.op = "eval" =>
           /\ overscope_user' = overscope_user
           /\ \A m \in MetaNames : overscope'[m] # Unbound
      /\ last'.op = "define" => overscope' = overscope
    ]_vars

C13_Witness ==
  /\ ngroups = NGroups /\ Len(stack) = 1 /\ last.op = "eval" /\ indices = 1
  /\ overscope_user["tmp"] = Vec(<<2>>) /\ caller.kind = "value"
  /\ overscope["..group_number"] = Vec(<<2>>)

\* C14: nested evaluation of the same group is reentrant.  While the call
\* in progress has been nested only by evaluates of its own index, the
\* resolver's index is that index, the metadata are that group's, and every
\* declared variable resolves, without fault, to that group's rows of the
\* column: the same value before and after the nested call.
C14_SameGroupReentrant ==
  (stack # <<>> /\ ~Top.overlapped /\ callback = "live" /\ ~crashed) =>
     /\ indices = Top.idx /\ IndexValid
     /\ overscope = eval_overscope(IndexSize(Top.idx), IndexGroup(Top.idx))
     /\ \A n \in Names : \A o \in LookupOutcomes(n) :
          /\ ~o.crash
          /\ IsSubsetOf(o.val, n, Top.idx)

C14_Witness ==
  /\ last.op = "return" /\ Len(stack) = 1 /\ ~Top.overlapped /\ Top.idx = 1
  /\ callback = "live" /\ ~crashed /\ materializations = 1
  /\ subsets["x"].has /\ ~subsets["y"].has

\* C17: whenever the strong resolver dereferences its index (the cache reads
\* the index to materialize, or the read faults) while the mask is alive, the
\* installed index is non-null and is the index of an evaluate call still in
\* progress.
C17_IndexReadOnlyInProgress ==
  (IsResolve(last) /\ last.strong /\ last.name \in Names
     /\ (last.mat = 1 \/ crashed)) =>
    /\ indices # NullIndex
    /\ \E i \in 1..Len(stack) : stack[i].idx = indices

\* C15: overlapping groups are not isolated.  Once a nested evaluate of a
\* different index has returned into an outer call, the installed index, the
\* cache entries and the metadata are those of the nested group, and the
\* outer call's later resolutions yield that group's rows.
C15_OverlapNotRestored ==
  (stack # <<>> /\ Top.overlapped /\ indices # Top.idx /\ callback = "live") =>
    /\ indices # NullIndex
    /\ overscope = eval_overscope(IndexSize(indices), IndexGroup(indices))
    /\ \A n \in Names : subsets[n].has => subsets[n].idx = indices
    /\ (IsResolve(last) /\ last.strong /\ last.name \in Names) =>
         (~crashed /\ IsSubsetOf(last.val, last.name, indices))

\* every declared column over all the rows of the dataset
WholeData == [n \in Names |-> Vec([r \in 1..NRows |-> ColumnValue(n, r)])]

\* C16: in the single-group mask update changes nothing, bottom() and top()
\* are one scope, every declared name resolves after any step to the whole
\* column bound at construction, and an evaluate on it neither creates nor
\* consults a cache entry, the resolved scope, the index or the proxy.
C16_FastPathNoOp ==
  [][ /\ mask_bindings' = mask_bindings
      /\ Natural_bottom' = Natural_top'
      /\ \A n \in Names : NaturalLookupValue(n)' = WholeData[n]
      /\ last'.op = "nat_eval" =>
           /\ UNCHANGED <<subsets, materializations, mask_resolved, mask_active,
                          indices, callback, use_count>>
           /\ ~last'.proxy /\ ~last'.strong /\ last'.mat = 0
    ]_vars

C16_Witness ==
  /\ last.op = "nat_eval" /\ nat_overscope["..group_size"] = Vec(<<NRows>>)
  /\ mask_bindings["y"] = Vec(WholeColumn(2)) /\ Len(mask_bindings["y"].v) = NRows
  /\ ngroups = NGroups /\ stack # <<>> /\ indices = 1

\* C18: a stale proxy is bound to its own mask.  Once a later mask has been
\* constructed over the same SubsetCache, a call of an earlier mask's proxy
\* returns the null value with the warning, reaches no resolver, and leaves
\* the later mask's index, the cache, the resolved scope, the materialization
\* counter and the callback's owners unchanged; destroying a mask leaves the
\* shared cache with no entries.
C18_StaleProxyOwnMaskOnly ==
  [][ /\ last'.op = "stale_callback" =>
           /\ last'.val = Null /\ last'.warn /\ last'.proxy /\ ~last'.strong
           /\ last'.mat = 0 /\ ~crashed'
           /\ UNCHANGED <<indices, subsets, mask_resolved, materializations,
                          callback, use_count, overscope>>
      /\ last'.op = "destroy" => CacheEmpty(subsets')
    ]_vars

C18_Witness ==
  /\ last.op = "stale_callback" /\ last.name = "x" /\ last.val = Null /\ last.warn
  /\ mask_no = 2 /\ callback = "live" /\ stack # <<>> /\ indices = 1
  /\ subsets["y"].has /\ mask_resolved["y"].tag = "vec"
====
